---- MODULE Spec2Model ----
(***************************************************************************)
(* Model of the Mpesa client (src/src/client.rs): one shared client, whose *)
(* identity is fixed by Mpesa::new, and a bounded number of invocations of *)
(* its five public operations, which may overlap in time.  Every           *)
(* invocation is a straight-line run of the operation's body, cut at the   *)
(* points where it waits for the network.                                  *)
(***************************************************************************)
EXTENDS Integers, FiniteSets, Sequences, TLC

\* ------------------------------------------------------------------ bounds
NumInvocations == 2

Invocations == 1..NumInvocations

\* No record, and no value.
None == [none |-> TRUE]
Unset == <<"unset">>

\* --------------------------------------------------------- client identity
Environments == {"Sandbox", "Production"}
ClientKeys == {"key-a"}
ClientSecrets == {"secret-a"}
InitiatorPasswords == {"pw-a"}

CtorArgs ==
    [client_key : ClientKeys, client_secret : ClientSecrets,
     environment : Environments, initiator_password : InitiatorPasswords]

\* new with the key and the secret stored in each other's field; C6 fails
\* for it.
new_swapped(a) ==
    [client_key |-> a.client_secret,
     client_secret |-> a.client_key,
     environment |-> a.environment,
     initiator_password |-> a.initiator_password]

\* Mpesa::new
new(a) ==
    [client_key |-> a.client_key,
     client_secret |-> a.client_secret,
     environment |-> a.environment,
     initiator_password |-> a.initiator_password]

\* Environment::base_url and the certificate each environment pins.
base_url(env) ==
    IF env = "Sandbox" THEN "https://sandbox.safaricom.co.ke"
                       ELSE "https://api.safaricom.co.ke"

certificate(env) ==
    IF env = "Sandbox" THEN "sandbox-cert" ELSE "production-cert"

\* gen_security_credentials, when it succeeds: the initiator password
\* encrypted under the environment's certificate, base64-encoded.
gen_security_credentials(id) ==
    <<"str", <<"base64", id.initiator_password, certificate(id.environment)>> >>

\* ------------------------------------------------------------- operations
Ops == {"b2c", "b2b", "c2b_register", "c2b_simulate", "account_balance"}

\* No operation deriving the credential; C9 fails for it.
Privileged_none(o) == FALSE

\* The operations whose body calls self.gen_security_credentials()?.
Privileged(o) == o \in {"b2c", "b2b", "account_balance"}

\* The literal after "{}" in each format! that builds a URL.
auth_path == "/oauth/v1/generate?grant_type=client_credentials"

path(o) ==
    CASE o = "b2c" -> "/mpesa/b2c/v1/paymentrequest"
      [] o = "b2b" -> "/mpesa/b2b/v1/paymentrequest"
      [] o = "c2b_register" -> "/mpesa/c2b/v1/registerurl"
      [] o = "c2b_simulate" -> "/mpesa/c2b/v1/simulate"
      [] o = "account_balance" -> "/mpesa/accountbalance/v1/query"

\* A URL whose path depends on the environment; C8 fails for it.
format_url_production_v2(base, p) ==
    [base |-> base,
     path |-> IF base = "https://api.safaricom.co.ke" THEN <<"/v2", p>> ELSE <<p>>]

\* format!("{}<path>", base): a URL is its base followed by its path.
format_url(base, p) == [base |-> base, path |-> <<p>>]

\* ----------------------------------------------------------- value domain
\* &str and String values, u32 values, and the values of the enums.
\* A string is a tuple of its parts; Lit is a string given literally.
Str(s) == <<"str", s>>
Lit(s) == Str(<<s>>)
U32(n) == <<"u32", n>>
Enum(t, v) == <<"enum", t, v>>

\* Display::to_string of an enum value: a string naming the value.
to_string(e) == <<"str", <<e[2], e[3]>> >>

CommandIds ==
    <<"BusinessPayment", "BusinessToBusinessTransfer", "CustomerPayBillOnline">>

ResponseTypes == <<"Complete">>

Pick(seq, v) == seq[((v - 1) % Len(seq)) + 1]

\* The caller's arguments of operation o in invocation v: every parameter
\* has a value that no other parameter and no other invocation has.
Args(o, v) ==
    CASE o = "b2c" ->
           [initiator_name |-> Str(<<"initiator_name", v>>),
            command_id |-> Enum("CommandId", Pick(CommandIds, v)),
            amount |-> U32(1000 * v),
            party_a |-> Str(<<"party_a", v>>),
            party_b |-> Str(<<"party_b", v>>),
            remarks |-> Str(<<"remarks", v>>),
            queue_timeout_url |-> Str(<<"queue_timeout_url", v>>),
            result_url |-> Str(<<"result_url", v>>),
            occasion |-> Str(<<"occasion", v>>)]
      [] o = "b2b" ->
           [initiator_name |-> Str(<<"initiator_name", v>>),
            command_id |-> Enum("CommandId", Pick(CommandIds, v + 1)),
            amount |-> U32(1000 * v),
            party_a |-> Str(<<"party_a", v>>),
            sender_id |-> U32(v),
            party_b |-> Str(<<"party_b", v>>),
            receiver_id |-> U32(v + 3),
            remarks |-> Str(<<"remarks", v>>),
            queue_timeout_url |-> Str(<<"queue_timeout_url", v>>),
            result_url |-> Str(<<"result_url", v>>),
            account_ref |-> Str(<<"account_ref", v>>)]
      [] o = "c2b_register" ->
           [validation_url |-> Str(<<"validation_url", v>>),
            confirmation_url |-> Str(<<"confirmation_url", v>>),
            response_type |-> Enum("ResponseType", Pick(ResponseTypes, v)),
            short_code |-> Str(<<"short_code", v>>)]
      [] o = "c2b_simulate" ->
           [command_id |-> Enum("CommandId", Pick(CommandIds, v + 2)),
            amount |-> U32(v),
            msisdn |-> Str(<<"msisdn", v>>),
            bill_ref_number |-> Str(<<"bill_ref_number", v>>),
            short_code |-> Str(<<"short_code", v>>)]
      [] o = "account_balance" ->
           [party_a |-> Str(<<"party_a", v>>),
            remarks |-> Str(<<"remarks", v>>),
            initiator_name |-> Str(<<"initiator_name", v>>),
            queue_timeout_url |-> Str(<<"queue_timeout_url", v>>),
            result_url |-> Str(<<"result_url", v>>)]


\* The payload record each operation fills in before it builds the body.
Payload(o, a, credentials) ==
    CASE o = "b2c" ->
           [initiator_name |-> a.initiator_name,
            security_credentials |-> credentials,
            command_id |-> a.command_id,
            amount |-> a.amount,
            party_a |-> a.party_a,
            party_b |-> a.party_b,
            remarks |-> a.remarks,
            queue_timeout_url |-> a.queue_timeout_url,
            result_url |-> a.result_url,
            occasion |-> a.occasion]
      [] o = "b2b" ->
           [initiator_name |-> a.initiator_name,
            security_credentials |-> credentials,
            command_id |-> a.command_id,
            amount |-> a.amount,
            party_a |-> a.party_a,
            sender_id |-> a.sender_id,
            party_b |-> a.party_b,
            receiver_id |-> a.receiver_id,
            remarks |-> a.remarks,
            queue_timeout_url |-> a.queue_timeout_url,
            result_url |-> a.result_url,
            account_ref |-> a.account_ref]
      [] o = "c2b_register" ->
           [validation_url |-> a.validation_url,
            confirmation_url |-> a.confirmation_url,
            response_type |-> a.response_type,
            short_code |-> a.short_code]
      [] o = "c2b_simulate" ->
           [command_id |-> a.command_id,
            amount |-> a.amount,
            msisdn |-> a.msisdn,
            bill_ref_number |-> a.bill_ref_number,
            short_code |-> a.short_code]
      [] o = "account_balance" ->
           [command_id |-> Enum("CommandId", "AccountBalance"),
            party_a |-> a.party_a,
            identifier_type |-> Enum("IdentifierTypes", "Shortcode"),
            remarks |-> a.remarks,
            initiator_name |-> a.initiator_name,
            queue_timeout_url |-> a.queue_timeout_url,
            result_url |-> a.result_url,
            security_credentials |-> credentials]

\* json! of a string and of a u32.
JString(s) == <<"string", s>>
JNumber(n) == <<"number", n[2]>>

\* The body of b2b with the misspelt key spelt right; C7 fails for it.
b2b_data_spelling_fixed(payload) ==
    [Initiator |-> JString(payload.initiator_name),
     SecurityCredential |-> JString(payload.security_credentials),
     CommandID |-> JString(to_string(payload.command_id)),
     SenderIdentifierType |-> JNumber(payload.sender_id),
     ReceiverIdentifierType |-> JNumber(payload.receiver_id),
     Amount |-> JNumber(payload.amount),
     PartyA |-> JString(payload.party_a),
     PartyB |-> JString(payload.party_b),
     AccountReference |-> JString(payload.account_ref),
     Remarks |-> JString(payload.remarks),
     QueueTimeOutURL |-> JString(payload.queue_timeout_url),
     ResultURL |-> JString(payload.result_url)]

\* The body json! builds: a JSON object, as a function from its keys.
b2c_data(payload) ==
    [InitiatorName |-> JString(payload.initiator_name),
     SecurityCredential |-> JString(payload.security_credentials),
     CommandID |-> JString(to_string(payload.command_id)),
     Amount |-> JNumber(payload.amount),
     PartyA |-> JString(payload.party_a),
     PartyB |-> JString(payload.party_b),
     Remarks |-> JString(payload.remarks),
     QueueTimeOutURL |-> JString(payload.queue_timeout_url),
     ResultURL |-> JString(payload.result_url),
     Occasion |-> JString(payload.occasion)]

b2b_data(payload) ==
    [Initiator |-> JString(payload.initiator_name),
     SecurityCredential |-> JString(payload.security_credentials),
     CommandID |-> JString(to_string(payload.command_id)),
     SenderIdentifierType |-> JNumber(payload.sender_id),
     RecieverIdentifierType |-> JNumber(payload.receiver_id),
     Amount |-> JNumber(payload.amount),
     PartyA |-> JString(payload.party_a),
     PartyB |-> JString(payload.party_b),
     AccountReference |-> JString(payload.account_ref),
     Remarks |-> JString(payload.remarks),
     QueueTimeOutURL |-> JString(payload.queue_timeout_url),
     ResultURL |-> JString(payload.result_url)]

c2b_register_data(payload) ==
    [ValidationURL |-> JString(payload.validation_url),
     ConfirmationURL |-> JString(payload.confirmation_url),
     ResponseType |-> JString(to_string(payload.response_type)),
     ShortCode |-> JString(payload.short_code)]

\* "ShortCode" is read from the parameter short_code, not from the payload.
c2b_simulate_data(payload, short_code) ==
    [CommandID |-> JString(to_string(payload.command_id)),
     Amount |-> JNumber(payload.amount),
     Msisdn |-> JString(payload.msisdn),
     BillRefNumber |-> JString(payload.bill_ref_number),
     ShortCode |-> JString(short_code)]

\* "IdentifierType" is the literal "4", not read from the payload.
account_balance_data(payload) ==
    [CommandID |-> JString(to_string(payload.command_id)),
     PartyA |-> JString(payload.party_a),
     IdentifierType |-> JString(Lit("4")),
     Remarks |-> JString(payload.remarks),
     Initiator |-> JString(payload.initiator_name),
     SecurityCredential |-> JString(payload.security_credentials),
     QueueTimeOutURL |-> JString(payload.queue_timeout_url),
     ResultURL |-> JString(payload.result_url)]

Data(o, payload, a) ==
    CASE o = "b2c" -> b2c_data(payload)
      [] o = "b2b" -> b2b_data(payload)
      [] o = "c2b_register" -> c2b_register_data(payload)
      [] o = "c2b_simulate" -> c2b_simulate_data(payload, a.short_code)
      [] o = "account_balance" -> account_balance_data(payload)

\* ---------------------------------------------------------------- replies
\* What the remote service can answer: nothing (the transport fails), or a
\* status with a body that is not JSON, or a JSON object with some fields.
Statuses == {200, 401}

TransportFailure == [delivered |-> FALSE, status |-> 0, body |-> None]

Malformed == [json |-> FALSE, fields |-> None]
JsonBody(f) == [json |-> TRUE, fields |-> f]

ErrorBody == JsonBody([errorMessage |-> Lit("Invalid Access Token")])

\* The token the endpoint issues in answer to invocation i's GET: the
\* service never issues the same token twice.
AccessToken(i) == Str(<<"access_token", i>>)

TokenBodies(i) ==
    {Malformed, ErrorBody,
     JsonBody([access_token |-> AccessToken(i), expires_in |-> Lit("3599")])}

ResponseCodes == {Lit("0"), Lit("1")}

OperationBodies ==
    {Malformed} \cup {JsonBody([ResponseCode |-> c]) : c \in ResponseCodes}

Replies(bodies) ==
    {TransportFailure}
      \cup {[delivered |-> TRUE, status |-> st, body |-> b] : st \in Statuses, b \in bodies}

\* Result<T, Box<dyn Error>>
Ok(v) == [ok |-> TRUE, value |-> v]
Err(kind) == [ok |-> FALSE, error |-> kind]

\* Response::json::<AuthResponse>(): the body must be a JSON object with
\* the field access_token.
AuthResponse_from_json(body) ==
    IF body.json /\ "access_token" \in DOMAIN body.fields
    THEN Ok([access_token |-> body.fields.access_token])
    ELSE Err("decode")

\* Response::json::<B2cResponse>() and its like: the body must be a JSON
\* object with the field ResponseCode, which the response exposes.
OperationResponse_from_json(o, body) ==
    IF body.json /\ "ResponseCode" \in DOMAIN body.fields
    THEN Ok([operation |-> o, typed |-> TRUE, ResponseCode |-> body.fields.ResponseCode])
    ELSE Err("decode")

\* auth returning the wrong field of the answer; C10 fails for it.
auth_result_expires_in(reply) ==
    IF ~reply.delivered THEN Err("transport")
    ELSE LET resp == AuthResponse_from_json(reply.body)
         IN IF resp.ok THEN Ok(reply.body.fields.expires_in) ELSE resp

\* auth: send()? fails on a transport failure only, json()? on a body that
\* does not parse; the status is not looked at.
auth_result(reply) ==
    IF ~reply.delivered THEN Err("transport")
    ELSE LET resp == AuthResponse_from_json(reply.body)
         IN IF resp.ok THEN Ok(resp.value.access_token) ELSE resp

\* An operation that turns a ResponseCode other than "0" into an error; C2
\* fails for it.
operation_result_rejecting(o, reply) ==
    IF ~reply.delivered THEN Err("transport")
    ELSE IF o = "c2b_register"
         THEN Ok([operation |-> o, typed |-> FALSE, status |-> reply.status, body |-> reply.body])
         ELSE LET r == OperationResponse_from_json(o, reply.body)
              IN IF r.ok /\ r.value.ResponseCode # Lit("0") THEN Err("rejected") ELSE r

\* The tail of each operation: send()? and then, in all but c2b_register,
\* json()?.  c2b_register returns the reqwest Response as it arrived.
operation_result(o, reply) ==
    IF ~reply.delivered THEN Err("transport")
    ELSE IF o = "c2b_register"
         THEN Ok([operation |-> o, typed |-> FALSE, status |-> reply.status, body |-> reply.body])
         ELSE OperationResponse_from_json(o, reply.body)

\* ------------------------------------------------------------------ state
VARIABLES
    ctor,         \* the arguments Mpesa::new was called with
    identity,     \* the fields of the Mpesa value
    pc,           \* where each invocation is
    op,           \* the operation invoked
    args,         \* its arguments, while it runs
    url,          \* local: url
    credentials,  \* local: credentials
    data,         \* local: data, built from the local payload
    token,        \* the value of self.auth()? handed to bearer_auth
    getReq,       \* the token GET on the wire
    authReply,    \* the answer of the token endpoint the token came in
    postReq,      \* the operation POST on the wire
    postReply,    \* what the operation endpoint answered
    result,       \* the value the operation returned
    failedAt,     \* the step whose error the operation returned
    gets,         \* token GETs this invocation has issued
    posts,        \* operation POSTs this invocation has issued
    derived       \* security-credential derivations this invocation has run

vars ==
    <<ctor, identity, pc, op, args, url, credentials, data, token,
      getReq, authReply, postReq, postReply, result, failedAt, gets, posts, derived>>

Init ==
    /\ ctor \in CtorArgs
    /\ identity = new(ctor)
    /\ pc = [i \in Invocations |-> "idle"]
    /\ op = [i \in Invocations |-> "none"]
    /\ args = [i \in Invocations |-> None]
    /\ url = [i \in Invocations |-> None]
    /\ credentials = [i \in Invocations |-> Unset]
    /\ data = [i \in Invocations |-> None]
    /\ token = [i \in Invocations |-> Unset]
    /\ getReq = [i \in Invocations |-> None]
    /\ authReply = [i \in Invocations |-> None]
    /\ postReq = [i \in Invocations |-> None]
    /\ postReply = [i \in Invocations |-> None]
    /\ result = [i \in Invocations |-> None]
    /\ failedAt = [i \in Invocations |-> "none"]
    /\ gets = [i \in Invocations |-> 0]
    /\ posts = [i \in Invocations |-> 0]
    /\ derived = [i \in Invocations |-> 0]

\* Returning from the operation drops its parameters and locals.
DropFrame(i) ==
    /\ args' = [args EXCEPT ![i] = None]
    /\ url' = [url EXCEPT ![i] = None]
    /\ credentials' = [credentials EXCEPT ![i] = Unset]
    /\ data' = [data EXCEPT ![i] = None]

\* The request auth sends: a GET with basic authentication.
auth_request(id) ==
    [url |-> format_url(base_url(id.environment), auth_path),
     basic_auth |-> <<id.client_key, id.client_secret>>]

\* The request an operation sends: a POST with the bearer token and the
\* JSON body.
post_request(u, t, d) == [url |-> u, bearer_auth |-> t, json |-> d]

\* The operation fills its payload, builds the body and, inside
\* self.auth(), sends the token GET.
BuildAndAuthSend(i, o, a, c) ==
    /\ data' = [data EXCEPT ![i] = Data(o, Payload(o, a, c), a)]
    /\ getReq' = [getReq EXCEPT ![i] = auth_request(identity)]
    /\ gets' = [gets EXCEPT ![i] = @ + 1]
    /\ pc' = [pc EXCEPT ![i] = "auth_wait"]

\* The caller invokes operation o, which formats its URL.  A privileged
\* operation goes on to derive the credential; the others go on to the
\* payload, the body and the token GET.
Call(i, o) ==
    /\ pc[i] = "idle"
    /\ op' = [op EXCEPT ![i] = o]
    /\ args' = [args EXCEPT ![i] = Args(o, i)]
    /\ url' = [url EXCEPT ![i] = format_url(base_url(identity.environment), path(o))]
    /\ IF Privileged(o)
       THEN /\ pc' = [pc EXCEPT ![i] = "credentials"]
            /\ UNCHANGED <<data, getReq, gets>>
       ELSE BuildAndAuthSend(i, o, Args(o, i), Unset)
    /\ UNCHANGED <<ctor, identity, credentials, token, authReply,
                   postReq, postReply, result, failedAt, posts, derived>>

\* self.gen_security_credentials()? succeeds.
GenCredentialsOk(i) ==
    /\ pc[i] = "credentials"
    /\ credentials' = [credentials EXCEPT ![i] = gen_security_credentials(identity)]
    /\ derived' = [derived EXCEPT ![i] = @ + 1]
    /\ BuildAndAuthSend(i, op[i], args[i], gen_security_credentials(identity))
    /\ UNCHANGED <<ctor, identity, op, args, url, token, authReply,
                   postReq, postReply, result, failedAt, posts>>

\* self.gen_security_credentials()? fails (the certificate does not load,
\* the encryption fails): the operation returns the error.
GenCredentialsErr(i) ==
    /\ pc[i] = "credentials"
    /\ derived' = [derived EXCEPT ![i] = @ + 1]
    /\ result' = [result EXCEPT ![i] = Err("crypto")]
    /\ failedAt' = [failedAt EXCEPT ![i] = "credentials"]
    /\ pc' = [pc EXCEPT ![i] = "done"]
    /\ DropFrame(i)
    /\ UNCHANGED <<ctor, identity, op, token,
                   getReq, authReply, postReq, postReply, gets, posts>>

\* self.auth()? yields the token: the operation hands it to bearer_auth
\* and sends the POST.  The answer the token came in is kept beside it
\* until the POST is answered.
SendPost(i, reply, t) ==
    /\ authReply' = [authReply EXCEPT ![i] = reply]
    /\ token' = [token EXCEPT ![i] = t]
    /\ postReq' = [postReq EXCEPT ![i] = post_request(url[i], t, data[i])]
    /\ posts' = [posts EXCEPT ![i] = @ + 1]
    /\ getReq' = [getReq EXCEPT ![i] = None]
    /\ pc' = [pc EXCEPT ![i] = "post_wait"]
    /\ UNCHANGED <<result, failedAt, args, url, credentials, data, gets>>

\* An operation that asks for a token again when auth fails; C5 fails for
\* it.
AuthFailed_retry(i, e) ==
    /\ getReq' = [getReq EXCEPT ![i] = auth_request(identity)]
    /\ gets' = [gets EXCEPT ![i] = @ + 1]
    /\ pc' = [pc EXCEPT ![i] = "auth_wait"]
    /\ UNCHANGED <<result, failedAt, args, url, credentials, data, token, postReq, posts,
                   authReply>>

\* self.auth()? yields an error: the operation returns it, and the answer
\* auth held is gone with auth's frame.
AuthFailed(i, e) ==
    /\ authReply' = [authReply EXCEPT ![i] = None]
    /\ result' = [result EXCEPT ![i] = e]
    /\ failedAt' = [failedAt EXCEPT ![i] = "auth"]
    /\ getReq' = [getReq EXCEPT ![i] = None]
    /\ pc' = [pc EXCEPT ![i] = "done"]
    /\ DropFrame(i)
    /\ UNCHANGED <<token, postReq, posts, gets>>

\* The token endpoint answers (or the transport fails) and auth returns.
AuthReceive(i, reply) ==
    /\ pc[i] = "auth_wait"
    /\ IF auth_result(reply).ok
       THEN SendPost(i, reply, auth_result(reply).value)
       ELSE AuthFailed(i, auth_result(reply))
    /\ UNCHANGED <<ctor, identity, op, postReply, derived>>

\* The operation endpoint answers (or the transport fails) and the
\* operation returns.
PostReceive(i, reply) ==
    /\ pc[i] = "post_wait"
    /\ postReply' = [postReply EXCEPT ![i] = reply]
    /\ postReq' = [postReq EXCEPT ![i] = None]
    /\ token' = [token EXCEPT ![i] = Unset]
    /\ authReply' = [authReply EXCEPT ![i] = None]
    /\ result' = [result EXCEPT ![i] = operation_result(op[i], reply)]
    /\ failedAt' = [failedAt EXCEPT ![i] =
                      IF operation_result(op[i], reply).ok THEN "none" ELSE "post"]
    /\ pc' = [pc EXCEPT ![i] = "done"]
    /\ DropFrame(i)
    /\ UNCHANGED <<ctor, identity, op, getReq, gets, posts, derived>>

Next ==
    \/ \E i \in Invocations, o \in Ops : Call(i, o)
    \/ \E i \in Invocations : GenCredentialsOk(i)
    \/ \E i \in Invocations : GenCredentialsErr(i)
    \/ \E i \in Invocations : \E reply \in Replies(TokenBodies(i)) : AuthReceive(i, reply)
    \/ \E i \in Invocations : \E reply \in Replies(OperationBodies) : PostReceive(i, reply)

Spec == Init /\ [][Next]_vars

\* ------------------------------------------------------------ properties
Delivered(r) == r # None /\ r.delivered
Success(r) == r.status = 200
CarriesToken(body) == body.json /\ "access_token" \in DOMAIN body.fields
CarriesResponseCode(body) == body.json /\ "ResponseCode" \in DOMAIN body.fields

ParsingOps == {"b2c", "b2b", "c2b_simulate", "account_balance"}

\* C1: auth returns the token of a 2xx answer whose JSON body carries
\* access_token, and returns an error, never a token, when the transport
\* fails, the status is not 2xx, or the body is malformed or has no
\* access_token.
C1_AuthTokenOrError ==
    \A i \in Invocations :
        authReply[i] # None =>
            LET r == authReply[i]
            IN IF r.delivered /\ Success(r) /\ CarriesToken(r.body)
               THEN pc[i] = "post_wait" /\ token[i] = r.body.fields.access_token
               ELSE pc[i] = "done" /\ ~result[i].ok /\ token[i] = Unset

\* C2: in b2c, b2b, c2b_simulate and account_balance a reply that parses
\* is returned as Ok and exposes the reply's ResponseCode, whatever it is.
C2_ParsedReplyIsOk ==
    \A i \in Invocations :
        (/\ pc[i] = "done"
         /\ op[i] \in ParsingOps
         /\ Delivered(postReply[i])
         /\ CarriesResponseCode(postReply[i].body))
        => /\ result[i].ok
           /\ result[i].value.ResponseCode = postReply[i].body.fields.ResponseCode

C2_Witness ==
    \E i \in Invocations :
        /\ pc[i] = "done"
        /\ op[i] = "b2c"
        /\ Delivered(postReply[i])
        /\ CarriesResponseCode(postReply[i].body)
        /\ postReply[i].body.fields.ResponseCode = Lit("1")
        /\ result[i].ok

\* C3: a reply whose body is malformed JSON, from the token endpoint or
\* from the endpoint of any of the five operations, makes the operation
\* return an error.
C3_MalformedIsError ==
    \A i \in Invocations :
        /\ (Delivered(authReply[i]) /\ ~authReply[i].body.json)
               => (pc[i] = "done" /\ ~result[i].ok)
        /\ (Delivered(postReply[i]) /\ ~postReply[i].body.json)
               => (pc[i] = "done" /\ ~result[i].ok)

\* C4: an operation that has returned has returned either an error or a
\* parsed, typed response to a 2xx reply.
C4_TypedOrError ==
    \A i \in Invocations :
        pc[i] = "done" =>
            \/ ~result[i].ok /\ result[i].error \in {"transport", "decode", "crypto"}
            \/ /\ result[i].ok
               /\ result[i].value.typed
               /\ Delivered(postReply[i])
               /\ Success(postReply[i])

\* C5 as stated: an invocation that has returned has issued exactly one
\* token GET and at most one POST.
C5_ExactlyOneTokenGet ==
    \A i \in Invocations :
        pc[i] = "done" => (gets[i] = 1 /\ posts[i] <= 1)

\* C5 as amended: an invocation issues at most one token GET and at most
\* one POST, never a POST without its GET; once it has returned it has
\* issued no GET if the credential derivation failed and exactly one
\* otherwise, and a POST exactly when its token GET succeeded; an
\* invocation waiting for an answer has issued its own GET whatever the
\* other invocations hold.
C5_NoRetryNoCache ==
    \A i \in Invocations :
        /\ gets[i] <= 1
        /\ posts[i] <= gets[i]
        /\ pc[i] \in {"auth_wait", "post_wait"} => gets[i] = 1
        /\ pc[i] = "done" =>
              /\ gets[i] = (IF failedAt[i] = "credentials" THEN 0 ELSE 1)
              /\ posts[i] = (IF failedAt[i] \in {"credentials", "auth"} THEN 0 ELSE 1)
              /\ failedAt[i] # "none" => ~result[i].ok

C5_Witness ==
    \E i, j \in Invocations :
        /\ i # j
        /\ pc[i] = "done" /\ failedAt[i] = "auth" /\ gets[i] = 1 /\ posts[i] = 0
        /\ pc[j] = "done" /\ failedAt[j] = "none" /\ gets[j] = 1 /\ posts[j] = 1

\* C6: the four fields of the client equal the values Mpesa::new was
\* given, in every state, whatever has run or is running.
C6_IdentityUnchanged ==
    /\ identity.client_key = ctor.client_key
    /\ identity.client_secret = ctor.client_secret
    /\ identity.environment = ctor.environment
    /\ identity.initiator_password = ctor.initiator_password

C6_Witness ==
    \E i, j \in Invocations :
        /\ pc[i] = "done" /\ ~result[i].ok
        /\ pc[j] = "post_wait"
        /\ identity = ctor

\* The field-name table of each operation.
DocumentedKeys(o) ==
    CASE o = "b2c" ->
           {"InitiatorName", "SecurityCredential", "CommandID", "Amount", "PartyA",
            "PartyB", "Remarks", "QueueTimeOutURL", "ResultURL", "Occasion"}
      [] o = "b2b" ->
           {"Initiator", "SecurityCredential", "CommandID", "SenderIdentifierType",
            "RecieverIdentifierType", "Amount", "PartyA", "PartyB", "AccountReference",
            "Remarks", "QueueTimeOutURL", "ResultURL"}
      [] o = "c2b_register" ->
           {"ValidationURL", "ConfirmationURL", "ResponseType", "ShortCode"}
      [] o = "c2b_simulate" ->
           {"CommandID", "Amount", "Msisdn", "BillRefNumber", "ShortCode"}
      [] o = "account_balance" ->
           {"CommandID", "PartyA", "IdentifierType", "Remarks", "Initiator",
            "SecurityCredential", "QueueTimeOutURL", "ResultURL"}

\* The JSON value a field's value is sent as; the identifier type of a
\* shortcode is sent as "4".
JsonOf(v) ==
    CASE v[1] = "str" -> JString(v)
      [] v[1] = "u32" -> JNumber(v)
      [] v[1] = "enum" /\ v[2] = "IdentifierTypes" -> JString(Lit("4"))
      [] v[1] = "enum" /\ v[2] # "IdentifierTypes" -> JString(to_string(v))

KeysCarrying(d, v) == {k \in DOMAIN d : d[k] = JsonOf(v)}

OtherEnvironment(env) == IF env = "Sandbox" THEN "Production" ELSE "Sandbox"

\* C8: the requests on the wire differ from those the same call sends on
\* a client of the other environment in the base URL and in the value of
\* SecurityCredential only: same path, same keys, same other values, same
\* basic authentication.
C8_EnvironmentChangesBaseAndCredentialOnly ==
    LET other == [identity EXCEPT !.environment = OtherEnvironment(identity.environment)]
    IN \A i \in Invocations :
        /\ getReq[i] # None =>
              /\ getReq[i].url.path = auth_request(other).url.path
              /\ getReq[i].url.base # auth_request(other).url.base
              /\ getReq[i].basic_auth = auth_request(other).basic_auth
        /\ postReq[i] # None =>
              LET c == IF Privileged(op[i]) THEN gen_security_credentials(other) ELSE Unset
                  d == Data(op[i], Payload(op[i], args[i], c), args[i])
                  u == format_url(base_url(other.environment), path(op[i]))
              IN /\ postReq[i].url.path = u.path
                 /\ postReq[i].url.base # u.base
                 /\ DOMAIN postReq[i].json = DOMAIN d
                 /\ \A k \in DOMAIN d \ {"SecurityCredential"} : postReq[i].json[k] = d[k]
                 /\ "SecurityCredential" \in DOMAIN d =>
                        postReq[i].json["SecurityCredential"] # d["SecurityCredential"]

C8_Witness ==
    \E i, j \in Invocations :
        /\ identity.environment = "Production"
        /\ postReq[i] # None /\ op[i] = "b2c"
        /\ getReq[j] # None /\ op[j] = "c2b_register"

\* C9: a privileged operation derives the credential before it issues any
\* request, and returns the error with no request issued if the derivation
\* fails; c2b_register and c2b_simulate never derive one and their body has
\* no SecurityCredential key.
C9_CredentialBeforeRequests ==
    \A i \in Invocations :
        /\ op[i] \in {"b2c", "b2b", "account_balance"} =>
              /\ gets[i] + posts[i] > 0 => derived[i] = 1
              /\ pc[i] = "credentials" => (derived[i] = 0 /\ gets[i] = 0 /\ posts[i] = 0)
              /\ data[i] # None =>
                    data[i]["SecurityCredential"] = JString(gen_security_credentials(identity))
              /\ failedAt[i] = "credentials" =>
                    /\ pc[i] = "done" /\ ~result[i].ok
                    /\ gets[i] = 0 /\ posts[i] = 0
        /\ op[i] \in {"c2b_register", "c2b_simulate"} =>
              /\ derived[i] = 0
              /\ credentials[i] = Unset
              /\ data[i] # None => "SecurityCredential" \notin DOMAIN data[i]
              /\ postReq[i] # None => "SecurityCredential" \notin DOMAIN postReq[i].json

C9_Witness ==
    \E i, j \in Invocations :
        /\ op[i] = "account_balance" /\ failedAt[i] = "credentials" /\ pc[i] = "done"
        /\ op[j] = "c2b_simulate" /\ postReq[j] # None

\* C10: a POST is on the wire only after the token GET of its own
\* invocation was answered with a token, and carries that token and no
\* token another invocation obtained; an operation whose token GET failed
\* has sent no POST and has returned the error.
C10_PostCarriesOwnToken ==
    \A i \in Invocations :
        /\ posts[i] > 0 => gets[i] = 1
        /\ postReq[i] # None =>
              /\ Delivered(authReply[i])
              /\ CarriesToken(authReply[i].body)
              /\ postReq[i].bearer_auth = authReply[i].body.fields.access_token
              /\ \A j \in Invocations \ {i} : postReq[i].bearer_auth # token[j]
        /\ failedAt[i] = "auth" =>
              /\ posts[i] = 0 /\ postReq[i] = None
              /\ pc[i] = "done" /\ ~result[i].ok
        /\ (pc[i] = "done" /\ gets[i] = 1 /\ posts[i] = 0) =>
              (failedAt[i] = "auth" /\ ~result[i].ok)

C10_Witness ==
    \E i, j \in Invocations :
        /\ i # j
        /\ postReq[i] # None /\ postReq[j] # None
        /\ token[i] # token[j]

====
